---- MODULE Spec2Model ----
(***************************************************************************)
(* Model of the SalesBuildr MCP server: the navigation state machine and   *)
(* the call-tool router of src/src/index.ts, the five domain handlers, the *)
(* memoized client of src/src/utils/client.ts and the HTTP request         *)
(* listener (env and gateway authentication modes).                        *)
(*                                                                         *)
(* JavaScript values are strings; null and undefined are the two reserved  *)
(* strings Null and Undefined.  A tool name is the sequence of its         *)
(* maximal underscore-free words and the underscores between them, so that *)
(* String.startsWith is the prefix relation on sequences.  A text is a     *)
(* sequence of string pieces.                                              *)
(***************************************************************************)
EXTENDS Naturals, Sequences, FiniteSets, Bags, TLC

Null == "<null>"
Undefined == "<undefined>"

\* ------------------------------------------------------------------ bounds

\* How many tool calls of the stdio session may be suspended (awaiting the
\* module import or the upstream response) at the same time.
MaxInFlight == 1

\* How many HTTP requests may be in flight (queued by the transport or
\* suspended) at the same time.
MaxHttpInFlight == 2

\* ------------------------------------------------------- argument mappings

NoFields == [k \in {} |-> Undefined]

\* request.params.arguments: absent, or a mapping from field names to values.
NoArgs == [present |-> FALSE, bag |-> NoFields]
Args(b) == [present |-> TRUE, bag |-> b]

\* Property read b.f of a mapping: undefined when the field is absent.
Get(b, f) == IF f \in DOMAIN b THEN b[f] ELSE Undefined

\* Faulty variant: the rest pattern keeps the named field.
Omit_Nothing(b, f) == [k \in DOMAIN b |-> b[k]]

\* The rest pattern { f: _, ...rest }.
Omit(b, f) == [k \in DOMAIN b \ {f} |-> b[k]]

\* Template-literal conversion of a value to text.
ToText(v) == IF v = Undefined THEN "undefined" ELSE IF v = Null THEN "null" ELSE v

\* String.prototype.startsWith on word sequences.
StartsWith(s, p) == Len(s) >= Len(p) /\ SubSeq(s, 1, Len(p)) = p

\* ------------------------------------------------------ the tool registry

DomainEnum == <<"companies", "contacts", "products", "opportunities", "quotes">>

navigateTool == <<"salesbuildr", "_", "navigate">>

backTool == <<"salesbuildr", "_", "back">>

companyTools ==
  << <<"salesbuildr", "_", "companies", "_", "list">>,
     <<"salesbuildr", "_", "companies", "_", "get">>,
     <<"salesbuildr", "_", "companies", "_", "create">>,
     <<"salesbuildr", "_", "companies", "_", "update">>,
     <<"salesbuildr", "_", "companies", "_", "delete">> >>

contactTools ==
  << <<"salesbuildr", "_", "contacts", "_", "list">>,
     <<"salesbuildr", "_", "contacts", "_", "get">>,
     <<"salesbuildr", "_", "contacts", "_", "create">>,
     <<"salesbuildr", "_", "contacts", "_", "update">>,
     <<"salesbuildr", "_", "contacts", "_", "delete">> >>

\* Faulty variant: a product tool registered under the name of a company tool.
productTools_Misnamed ==
  << <<"salesbuildr", "_", "products", "_", "list">>,
     <<"salesbuildr", "_", "companies", "_", "get">> >>

productTools ==
  << <<"salesbuildr", "_", "products", "_", "list">>,
     <<"salesbuildr", "_", "products", "_", "get">> >>

opportunityTools ==
  << <<"salesbuildr", "_", "opportunities", "_", "list">>,
     <<"salesbuildr", "_", "opportunities", "_", "get">>,
     <<"salesbuildr", "_", "opportunities", "_", "create">>,
     <<"salesbuildr", "_", "opportunities", "_", "update">> >>

\* Faulty variant: the table advertises a delete tool the handler lacks.
quoteTools_WithDelete ==
  << <<"salesbuildr", "_", "quotes", "_", "list">>,
     <<"salesbuildr", "_", "quotes", "_", "get">>,
     <<"salesbuildr", "_", "quotes", "_", "create">>,
     <<"salesbuildr", "_", "quotes", "_", "delete">> >>

quoteTools ==
  << <<"salesbuildr", "_", "quotes", "_", "list">>,
     <<"salesbuildr", "_", "quotes", "_", "get">>,
     <<"salesbuildr", "_", "quotes", "_", "create">> >>

\* What the switch of getDomainTools yields: the domain's tool table, or
\* undefined when no case matches (the function then falls off its end).
NoTools == << <<Undefined>> >>

getDomainTools(domain) ==
  CASE domain = "companies" -> companyTools
    [] domain = "contacts" -> contactTools
    [] domain = "products" -> productTools
    [] domain = "opportunities" -> opportunityTools
    [] domain = "quotes" -> quoteTools
    [] OTHER -> NoTools

\* ------------------------------------------------------ response envelopes

TextBlock(t) == [type |-> "text", text |-> t]

\* A success envelope carries no isError field at all.
Envelope(t) == [content |-> <<TextBlock(t)>>]

ErrorEnvelope(t) == [content |-> <<TextBlock(t)>>, isError |-> TRUE]

\* domainTools.map((t) => t.name).join(", ")
RECURSIVE JoinNames(_)
JoinNames(tools) ==
  IF Len(tools) = 0 THEN <<>>
  ELSE IF Len(tools) = 1 THEN Head(tools)
  ELSE Head(tools) \o <<", ">> \o JoinNames(Tail(tools))

\* JSON.stringify(result, null, 2) of an upstream document.
Stringify(doc) == <<"{", doc, "}">>

\* The catch clause of the call-tool handler.
CatchEnvelope(message) == ErrorEnvelope(<<"Error: ", message>>)

DestructureError == "Cannot destructure property 'domain' of 'args' as it is undefined."
MapOfUndefinedError == "Cannot read properties of undefined (reading 'map')"
\* Spreading undefined into tools.push(...) throws (the sources are ES
\* modules: the spread is not down-levelled to Function.prototype.apply).
NotIterableError == "getDomainTools(...) is not iterable"
MissingKeyError == "SALESBUILDR_API_KEY environment variable is required. Set it to your SalesBuildr API key from your account settings."
NotInstalledError == "@wyre-technology/node-salesbuildr is not installed. Install it with: npm install @wyre-technology/node-salesbuildr"

\* ------------------------------------------------------ the memoized client

\* A client handle: the key it was built from, and which construction since
\* the last resetClient produced it (handles are distinct objects).
NoClient == [apiKey |-> Null, serial |-> 0]

\* Faulty variant: a missing key is handed on as the credentials.
getCredentials_AcceptsMissing(apiKey) == [threw |-> FALSE, apiKey |-> apiKey]

\* getCredentials: throws when the key is undefined or the empty string.
getCredentials(apiKey) ==
  IF apiKey = Undefined \/ apiKey = ""
  THEN [threw |-> TRUE, apiKey |-> Undefined]
  ELSE [threw |-> FALSE, apiKey |-> apiKey]

\* getClient up to its first suspension: the memo is returned when set,
\* otherwise the credentials are read and the module import is awaited.
getClientStart(memo, apiKey) ==
  IF memo # NoClient THEN [kind |-> "have", client |-> memo, creds |-> Undefined]
  ELSE IF getCredentials(apiKey).threw
       THEN [kind |-> "throw", client |-> NoClient, creds |-> Undefined]
       ELSE [kind |-> "import", client |-> NoClient,
             creds |-> getCredentials(apiKey).apiKey]

\* new ClientClass(creds)
NewClient(creds, n) == [apiKey |-> creds, serial |-> n]

\* --------------------------------------------------------- upstream calls

NoCall ==
  [resource |-> "none", method |-> "none", id |-> Undefined, data |-> NoFields,
   apiKey |-> Null, serial |-> 0]

UpCall(resource, method, id, data, c) ==
  [resource |-> resource, method |-> method, id |-> id, data |-> data,
   apiKey |-> c.apiKey, serial |-> c.serial]

\* Faulty variant: the whole argument mapping is passed upstream.
Pick_Everything(b, fields) == b

\* The object literal a list case passes upstream: the named fields only.
Pick(b, fields) == [k \in fields |-> Get(b, k)]

\* What a handler does once it holds the client: it returns an envelope at
\* once (the default case), or issues one upstream call and, when that
\* resolves, returns the reply text (<<>>: the stringified result).
ReturnNow(env) == [call |-> NoCall, reply |-> <<>>, envelope |-> env]
Await(call, reply) == [call |-> call, reply |-> reply, envelope |-> Envelope(<<>>)]

\* Faulty variant: delete returns its success text without calling upstream.
handleCompanyTool_DeleteEarly(name, b, c) ==
  CASE name = <<"salesbuildr", "_", "companies", "_", "list">> ->
         Await(UpCall("companies", "list", Undefined,
                      Pick(b, {"query", "from", "size"}), c), <<>>)
    [] name = <<"salesbuildr", "_", "companies", "_", "get">> ->
         Await(UpCall("companies", "get", Get(b, "id"), NoFields, c), <<>>)
    [] name = <<"salesbuildr", "_", "companies", "_", "create">> ->
         Await(UpCall("companies", "create", Undefined, Omit(b, "id"), c), <<>>)
    [] name = <<"salesbuildr", "_", "companies", "_", "update">> ->
         Await(UpCall("companies", "update", Get(b, "id"), Omit(b, "id"), c), <<>>)
    [] name = <<"salesbuildr", "_", "companies", "_", "delete">> ->
         ReturnNow(Envelope(<<"Company ", ToText(Get(b, "id")), " deleted successfully.">>))
    [] OTHER -> ReturnNow(ErrorEnvelope(<<"Unknown company tool: ">> \o name))

handleCompanyTool(name, b, c) ==
  CASE name = <<"salesbuildr", "_", "companies", "_", "list">> ->
         Await(UpCall("companies", "list", Undefined,
                      Pick(b, {"query", "from", "size"}), c), <<>>)
    [] name = <<"salesbuildr", "_", "companies", "_", "get">> ->
         Await(UpCall("companies", "get", Get(b, "id"), NoFields, c), <<>>)
    [] name = <<"salesbuildr", "_", "companies", "_", "create">> ->
         Await(UpCall("companies", "create", Undefined, Omit(b, "id"), c), <<>>)
    [] name = <<"salesbuildr", "_", "companies", "_", "update">> ->
         Await(UpCall("companies", "update", Get(b, "id"), Omit(b, "id"), c), <<>>)
    [] name = <<"salesbuildr", "_", "companies", "_", "delete">> ->
         Await(UpCall("companies", "delete", Get(b, "id"), NoFields, c),
               <<"Company ", ToText(Get(b, "id")), " deleted successfully.">>)
    [] OTHER -> ReturnNow(ErrorEnvelope(<<"Unknown company tool: ">> \o name))

\* Faulty variant: the default case returns its text without the error flag.
handleContactTool_DefaultSucceeds(name, b, c) ==
  CASE name = <<"salesbuildr", "_", "contacts", "_", "list">> ->
         Await(UpCall("contacts", "list", Undefined,
                      Pick(b, {"query", "companyId", "from", "size"}), c), <<>>)
    [] name = <<"salesbuildr", "_", "contacts", "_", "get">> ->
         Await(UpCall("contacts", "get", Get(b, "id"), NoFields, c), <<>>)
    [] name = <<"salesbuildr", "_", "contacts", "_", "create">> ->
         Await(UpCall("contacts", "create", Undefined, Omit(b, "id"), c), <<>>)
    [] name = <<"salesbuildr", "_", "contacts", "_", "update">> ->
         Await(UpCall("contacts", "update", Get(b, "id"), Omit(b, "id"), c), <<>>)
    [] name = <<"salesbuildr", "_", "contacts", "_", "delete">> ->
         Await(UpCall("contacts", "delete", Get(b, "id"), NoFields, c),
               <<"Contact ", ToText(Get(b, "id")), " deleted successfully.">>)
    [] OTHER -> ReturnNow(Envelope(<<"Unknown contact tool: ">> \o name))

handleContactTool(name, b, c) ==
  CASE name = <<"salesbuildr", "_", "contacts", "_", "list">> ->
         Await(UpCall("contacts", "list", Undefined,
                      Pick(b, {"query", "companyId", "from", "size"}), c), <<>>)
    [] name = <<"salesbuildr", "_", "contacts", "_", "get">> ->
         Await(UpCall("contacts", "get", Get(b, "id"), NoFields, c), <<>>)
    [] name = <<"salesbuildr", "_", "contacts", "_", "create">> ->
         Await(UpCall("contacts", "create", Undefined, Omit(b, "id"), c), <<>>)
    [] name = <<"salesbuildr", "_", "contacts", "_", "update">> ->
         Await(UpCall("contacts", "update", Get(b, "id"), Omit(b, "id"), c), <<>>)
    [] name = <<"salesbuildr", "_", "contacts", "_", "delete">> ->
         Await(UpCall("contacts", "delete", Get(b, "id"), NoFields, c),
               <<"Contact ", ToText(Get(b, "id")), " deleted successfully.">>)
    [] OTHER -> ReturnNow(ErrorEnvelope(<<"Unknown contact tool: ">> \o name))

handleProductTool(name, b, c) ==
  CASE name = <<"salesbuildr", "_", "products", "_", "list">> ->
         Await(UpCall("products", "list", Undefined,
                      Pick(b, {"query", "from", "size"}), c), <<>>)
    [] name = <<"salesbuildr", "_", "products", "_", "get">> ->
         Await(UpCall("products", "get", Get(b, "id"), NoFields, c), <<>>)
    [] OTHER -> ReturnNow(ErrorEnvelope(<<"Unknown product tool: ">> \o name))

\* Faulty variant: update passes the whole argument mapping as the data.
handleOpportunityTool_IdInData(name, b, c) ==
  CASE name = <<"salesbuildr", "_", "opportunities", "_", "list">> ->
         Await(UpCall("opportunities", "list", Undefined,
                      Pick(b, {"query", "from", "size"}), c), <<>>)
    [] name = <<"salesbuildr", "_", "opportunities", "_", "get">> ->
         Await(UpCall("opportunities", "get", Get(b, "id"), NoFields, c), <<>>)
    [] name = <<"salesbuildr", "_", "opportunities", "_", "create">> ->
         Await(UpCall("opportunities", "create", Undefined, Omit(b, "id"), c), <<>>)
    [] name = <<"salesbuildr", "_", "opportunities", "_", "update">> ->
         Await(UpCall("opportunities", "update", Get(b, "id"), b, c), <<>>)
    [] OTHER -> ReturnNow(ErrorEnvelope(<<"Unknown opportunity tool: ">> \o name))

handleOpportunityTool(name, b, c) ==
  CASE name = <<"salesbuildr", "_", "opportunities", "_", "list">> ->
         Await(UpCall("opportunities", "list", Undefined,
                      Pick(b, {"query", "from", "size"}), c), <<>>)
    [] name = <<"salesbuildr", "_", "opportunities", "_", "get">> ->
         Await(UpCall("opportunities", "get", Get(b, "id"), NoFields, c), <<>>)
    [] name = <<"salesbuildr", "_", "opportunities", "_", "create">> ->
         Await(UpCall("opportunities", "create", Undefined, Omit(b, "id"), c), <<>>)
    [] name = <<"salesbuildr", "_", "opportunities", "_", "update">> ->
         Await(UpCall("opportunities", "update", Get(b, "id"), Omit(b, "id"), c), <<>>)
    [] OTHER -> ReturnNow(ErrorEnvelope(<<"Unknown opportunity tool: ">> \o name))

\* Faulty variant: create passes the whole argument mapping upstream.
handleQuoteTool_KeepsId(name, b, c) ==
  CASE name = <<"salesbuildr", "_", "quotes", "_", "list">> ->
         Await(UpCall("quotes", "list", Undefined,
                      Pick(b, {"query", "companyId", "opportunityId", "from", "size"}), c),
               <<>>)
    [] name = <<"salesbuildr", "_", "quotes", "_", "get">> ->
         Await(UpCall("quotes", "get", Get(b, "id"), NoFields, c), <<>>)
    [] name = <<"salesbuildr", "_", "quotes", "_", "create">> ->
         Await(UpCall("quotes", "create", Undefined, b, c), <<>>)
    [] OTHER -> ReturnNow(ErrorEnvelope(<<"Unknown quote tool: ">> \o name))

handleQuoteTool(name, b, c) ==
  CASE name = <<"salesbuildr", "_", "quotes", "_", "list">> ->
         Await(UpCall("quotes", "list", Undefined,
                      Pick(b, {"query", "companyId", "opportunityId", "from", "size"}), c),
               <<>>)
    [] name = <<"salesbuildr", "_", "quotes", "_", "get">> ->
         Await(UpCall("quotes", "get", Get(b, "id"), NoFields, c), <<>>)
    [] name = <<"salesbuildr", "_", "quotes", "_", "create">> ->
         Await(UpCall("quotes", "create", Undefined, Omit(b, "id"), c), <<>>)
    [] OTHER -> ReturnNow(ErrorEnvelope(<<"Unknown quote tool: ">> \o name))

\* The body of a handler after "const client = await getClient()".
HandlerBody(handler, name, b, c) ==
  CASE handler = "handleCompanyTool" -> handleCompanyTool(name, b, c)
    [] handler = "handleContactTool" -> handleContactTool(name, b, c)
    [] handler = "handleProductTool" -> handleProductTool(name, b, c)
    [] handler = "handleOpportunityTool" -> handleOpportunityTool(name, b, c)
    [] OTHER -> handleQuoteTool(name, b, c)

\* The handler's return once the awaited upstream call has resolved.
HandlerReply(reply, doc) ==
  IF reply = <<>> THEN Envelope(Stringify(doc)) ELSE Envelope(reply)

\* ------------------------------------------------------- the request router

\* The outcome of the try block: a returned envelope or a thrown failure.
Returned(env) == [threw |-> FALSE, value |-> env, error |-> ""]
Threw(message) == [threw |-> TRUE, value |-> Envelope(<<>>), error |-> message]
NoOutcome == [threw |-> FALSE, value |-> Envelope(<<>>), error |-> "<none>"]

\* Faulty variant: the failure is rethrown instead of converted.
CallToolReturn_Rethrows(outcome) ==
  IF outcome.threw THEN [raised |-> outcome.error] ELSE outcome.value

\* Faulty variant: a success envelope carries isError: false.
CallToolReturn_FlagsSuccess(outcome) ==
  IF outcome.threw THEN CatchEnvelope(outcome.error)
  ELSE IF "isError" \in DOMAIN outcome.value THEN outcome.value
  ELSE [content |-> outcome.value.content, isError |-> FALSE]

\* try { return await ... } catch (error) { return { ..., isError: true } }
CallToolReturn(outcome) ==
  IF outcome.threw THEN CatchEnvelope(outcome.error) ELSE outcome.value

\* Faulty variant: the prefixes are tested without their closing underscore.
Route_LoosePrefix(name) ==
  IF StartsWith(name, <<"salesbuildr", "_", "companies">>) THEN "handleCompanyTool"
  ELSE IF StartsWith(name, <<"salesbuildr", "_", "contacts">>) THEN "handleContactTool"
  ELSE IF StartsWith(name, <<"salesbuildr", "_", "products">>) THEN "handleProductTool"
  ELSE IF StartsWith(name, <<"salesbuildr", "_", "opportunities">>)
       THEN "handleOpportunityTool"
  ELSE IF StartsWith(name, <<"salesbuildr", "_", "quotes">>) THEN "handleQuoteTool"
  ELSE "none"

\* The chain of name.startsWith tests, in the order of the source.
Route(name) ==
  IF StartsWith(name, <<"salesbuildr", "_", "companies", "_">>) THEN "handleCompanyTool"
  ELSE IF StartsWith(name, <<"salesbuildr", "_", "contacts", "_">>) THEN "handleContactTool"
  ELSE IF StartsWith(name, <<"salesbuildr", "_", "products", "_">>) THEN "handleProductTool"
  ELSE IF StartsWith(name, <<"salesbuildr", "_", "opportunities", "_">>)
       THEN "handleOpportunityTool"
  ELSE IF StartsWith(name, <<"salesbuildr", "_", "quotes", "_">>) THEN "handleQuoteTool"
  ELSE "none"

\* Faulty variant: the first branch tests the prefix all tool names share.
RouteBranches_SharedPrefix ==
  << [prefix |-> <<"salesbuildr", "_">>, handler |-> "handleCompanyTool"],
     [prefix |-> <<"salesbuildr", "_", "contacts", "_">>, handler |-> "handleContactTool"],
     [prefix |-> <<"salesbuildr", "_", "products", "_">>, handler |-> "handleProductTool"],
     [prefix |-> <<"salesbuildr", "_", "opportunities", "_">>,
      handler |-> "handleOpportunityTool"],
     [prefix |-> <<"salesbuildr", "_", "quotes", "_">>, handler |-> "handleQuoteTool"] >>

\* The branches of the chain as a table: the prefix each one tests and the
\* handler it delegates to, in the order of the source.
RouteBranches ==
  << [prefix |-> <<"salesbuildr", "_", "companies", "_">>, handler |-> "handleCompanyTool"],
     [prefix |-> <<"salesbuildr", "_", "contacts", "_">>, handler |-> "handleContactTool"],
     [prefix |-> <<"salesbuildr", "_", "products", "_">>, handler |-> "handleProductTool"],
     [prefix |-> <<"salesbuildr", "_", "opportunities", "_">>,
      handler |-> "handleOpportunityTool"],
     [prefix |-> <<"salesbuildr", "_", "quotes", "_">>, handler |-> "handleQuoteTool"] >>

\* A chain of startsWith tests: the handler of the first branch that matches.
RECURSIVE FirstMatch(_, _)
FirstMatch(branches, name) ==
  IF Len(branches) = 0 THEN "none"
  ELSE IF StartsWith(name, Head(branches).prefix) THEN Head(branches).handler
  ELSE FirstMatch(Tail(branches), name)

UnknownToolEnvelope(name) ==
  ErrorEnvelope(<<"Unknown tool: ">> \o name
                \o <<". Use salesbuildr_navigate to select a domain first.">>)

BackText ==
  <<"Returned to domain selection. Use salesbuildr_navigate to select a domain: companies, contacts, products, opportunities, quotes">>

\* A step of the call-tool handler: the Session State it leaves, and either
\* its outcome (pc "done") or where it is suspended.
Done(cur, handler, outcome) ==
  [currentDomain |-> cur, pc |-> "done", handler |-> handler, outcome |-> outcome,
   creds |-> Undefined, call |-> NoCall, reply |-> <<>>]
Suspend(cur, handler, pc, creds, call, reply) ==
  [currentDomain |-> cur, pc |-> pc, handler |-> handler, outcome |-> NoOutcome,
   creds |-> creds, call |-> call, reply |-> reply]

\* Faulty variant: the summary of navigate lists the back tool as well.
Navigate_ListsBack(args, cur) ==
  IF ~args.present THEN Done(cur, "none", Threw(DestructureError))
  ELSE LET domain == Get(args.bag, "domain")
           domainTools == getDomainTools(domain)
       IN  Done(domain, "none",
                IF domainTools = NoTools THEN Threw(MapOfUndefinedError)
                ELSE Returned(Envelope(
                       <<"Navigated to ", ToText(domain), " domain. Available tools: ">>
                       \o JoinNames(<<backTool>> \o domainTools))))

\* Faulty variant: navigate is refused inside a domain.
Navigate_OnlyFromRoot(args, cur) ==
  IF cur # Null
  THEN Done(cur, "none", Returned(ErrorEnvelope(<<"Use salesbuildr_back first.">>)))
  ELSE Done(Get(args.bag, "domain"), "none",
            Returned(Envelope(
              <<"Navigated to ", ToText(Get(args.bag, "domain")),
                " domain. Available tools: ">>
              \o JoinNames(getDomainTools(Get(args.bag, "domain"))))))

\* Faulty variant: without an arguments mapping the domain is read as
\* undefined and assigned before the lookup fails.
Navigate_AssignsUndefined(args, cur) ==
  LET domain == IF args.present THEN Get(args.bag, "domain") ELSE Undefined
      domainTools == getDomainTools(domain)
  IN  Done(domain, "none",
           IF domainTools = NoTools THEN Threw(MapOfUndefinedError)
           ELSE Returned(Envelope(
                  <<"Navigated to ", ToText(domain), " domain. Available tools: ">>
                  \o JoinNames(domainTools))))

\* salesbuildr_navigate: the domain is assigned as received, then its tool
\* table is looked up and mapped.
Navigate(args, cur) ==
  IF ~args.present THEN Done(cur, "none", Threw(DestructureError))
  ELSE LET domain == Get(args.bag, "domain")
           domainTools == getDomainTools(domain)
       IN  Done(domain, "none",
                IF domainTools = NoTools THEN Threw(MapOfUndefinedError)
                ELSE Returned(Envelope(
                       <<"Navigated to ", ToText(domain), " domain. Available tools: ">>
                       \o JoinNames(domainTools))))

\* Faulty variant: back is an error at the root.
Back_ErrorsAtRoot(cur) ==
  IF cur = Null
  THEN Done(Null, "none", Returned(ErrorEnvelope(<<"Already at domain selection.">>)))
  ELSE Done(Null, "none", Returned(Envelope(BackText)))

\* Faulty variant: back leaves the current domain in place.
Back_KeepsDomain(cur) == Done(cur, "none", Returned(Envelope(BackText)))

\* salesbuildr_back
Back(cur) == Done(Null, "none", Returned(Envelope(BackText)))

\* Faulty variant: a handler that holds the client leaves the domain.
WithClient_LeavesDomain(cur, handler, name, b, c) ==
  LET body == HandlerBody(handler, name, b, c)
  IN  IF body.call = NoCall THEN Done(Null, handler, Returned(body.envelope))
      ELSE Suspend(Null, handler, "upstream", Undefined, body.call, body.reply)

\* A handler from the moment it holds the client.
WithClient(cur, handler, name, b, c) ==
  LET body == HandlerBody(handler, name, b, c)
  IN  IF body.call = NoCall THEN Done(cur, handler, Returned(body.envelope))
      ELSE Suspend(cur, handler, "upstream", Undefined, body.call, body.reply)

\* A domain handler up to its first suspension.
Delegate(handler, name, b, cur, memo, apiKey) ==
  LET g == getClientStart(memo, apiKey)
  IN  CASE g.kind = "throw" -> Done(cur, handler, Threw(MissingKeyError))
        [] g.kind = "import" -> Suspend(cur, handler, "importing", g.creds, NoCall, <<>>)
        [] OTHER -> WithClient(cur, handler, name, b, g.client)

\* Faulty variant: a domain tool is served only inside its own domain.
CallToolStart_StateGated(name, args, cur, memo, apiKey) ==
  IF name = navigateTool THEN Navigate(args, cur)
  ELSE IF name = backTool THEN Back(cur)
  ELSE LET toolArgs == IF args.present THEN args.bag ELSE NoFields
       IN  IF Route(name) = "none" \/ getDomainTools(cur) = NoTools
              \/ ~StartsWith(name, SubSeq(getDomainTools(cur)[1], 1, 4))
           THEN Done(cur, "none", Returned(UnknownToolEnvelope(name)))
           ELSE Delegate(Route(name), name, toolArgs, cur, memo, apiKey)

\* The call-tool handler up to its first suspension.
CallToolStart(name, args, cur, memo, apiKey) ==
  IF name = navigateTool THEN Navigate(args, cur)
  ELSE IF name = backTool THEN Back(cur)
  ELSE LET toolArgs == IF args.present THEN args.bag ELSE NoFields
       IN  IF Route(name) = "none"
           THEN Done(cur, "none", Returned(UnknownToolEnvelope(name)))
           ELSE Delegate(Route(name), name, toolArgs, cur, memo, apiKey)

\* Faulty variant: the back tool is listed at the root as well.
ListTools_BackAtRoot(cur) ==
  IF cur = Null THEN [tools |-> <<navigateTool, backTool>>]
  ELSE IF getDomainTools(cur) = NoTools THEN [raised |-> NotIterableError]
  ELSE [tools |-> <<backTool>> \o getDomainTools(cur)]

\* The list-tools handler: a result, or the failure of spreading undefined.
ListTools(cur) ==
  IF cur = Null THEN [tools |-> <<navigateTool>>]
  ELSE IF getDomainTools(cur) = NoTools THEN [raised |-> NotIterableError]
  ELSE [tools |-> <<backTool>> \o getDomainTools(cur)]

\* ----------------------------------------------------------------- state

VARIABLES
  state,      \* the ServerState object: [currentDomain]
  _client,    \* the memoized client handle of utils/client.ts
  apiKeyEnv,  \* process.env.SALESBUILDR_API_KEY
  authMode,   \* "stdio", or the HTTP transport in "env" or "gateway" mode
  built,      \* clients constructed since the last resetClient
  inflight,   \* the bag of requests in flight (queued or suspended)
  last,       \* the request answered most recently, with its response
  called      \* whether a call-tool request has reached the router

vars == <<state, _client, apiKeyEnv, authMode, built, inflight, last, called>>

\* A request: what arrived (kind, name, args, session, header), where its
\* handler stands (pc, handler, creds, call, reply) and how many upstream
\* calls the handler has issued for it.
Req(kind, name, args, session, header) ==
  [kind |-> kind, name |-> name, args |-> args, session |-> session,
   header |-> header, pc |-> "queued", handler |-> "none", creds |-> Undefined,
   call |-> NoCall, reply |-> <<>>, issued |-> 0]

NoRequest == [Req("none", <<>>, NoArgs, "", Undefined) EXCEPT !.pc = "none"]

\* How many requests the transport in use lets be in flight.
Capacity == IF authMode = "stdio" THEN MaxInFlight ELSE MaxHttpInFlight

InFlight == BagToSet(inflight)

\* The request r as the step of its handler leaves it.  A step that ends
\* awaiting the upstream response has issued one upstream call.
After(r, step) ==
  [r EXCEPT !.pc = step.pc, !.handler = step.handler, !.creds = step.creds,
            !.call = step.call, !.reply = step.reply,
            !.issued = r.issued + (IF step.pc = "upstream" THEN 1 ELSE 0)]

NoResponse == [none |-> TRUE]

\* An answered request: the Session State its last step found, the outcome
\* of the handler and the response that left the server.  A request the
\* HTTP listener turns away (401) never reaches a handler: pc "rejected".
Answered(r, before, outcome, response) ==
  [req |-> [r EXCEPT !.pc = IF r.pc = "rejected" THEN "rejected" ELSE "done"],
   before |-> before, outcome |-> outcome, response |-> response]

\* ---------------------------------------------------------------- inputs

DomainSet == {DomainEnum[i] : i \in 1 .. Len(DomainEnum)}

NavigateInputs ==
  {[name |-> navigateTool, args |-> a] :
     a \in {NoArgs, Args(NoFields), Args([domain |-> "invoices"])}
           \cup {Args([domain |-> d]) : d \in DomainSet}}

DomainCallInputs ==
  {[name |-> getDomainTools(d)[1], args |-> NoArgs] : d \in DomainSet}
  \cup {[name |-> <<"salesbuildr", "_", "quotes", "_", "delete">>,
         args |-> Args([id |-> "42"])]}

UnknownNames ==
  { <<"foo">>,
    <<"salesbuildr", "_", "companies">>,
    <<"salesbuildr", "_", "invoices", "_", "list">>,
    <<"salesbuildr", "_", "navigate", "_", "companies">> }

StdioCalls ==
  NavigateInputs \cup {[name |-> backTool, args |-> NoArgs]} \cup DomainCallInputs
  \cup {[name |-> n, args |-> NoArgs] : n \in UnknownNames}

\* What the upstream API answers: a document, or a failure with a message.
UpstreamAnswers ==
  {[ok |-> TRUE, value |-> "doc"], [ok |-> FALSE, value |-> "Request failed with status 500"]}

\* ------------------------------------------------------------------ Init

Init ==
  /\ state = [currentDomain |-> Null]
  /\ _client = NoClient
  /\ apiKeyEnv \in {Undefined, "KA"}
  /\ authMode = "stdio"
  /\ built = 0
  /\ inflight = EmptyBag
  /\ last = Answered(NoRequest, Null, NoOutcome, NoResponse)
  /\ called = FALSE

\* --------------------------------------------------------------- actions

\* The handler of request r has taken the step: r leaves the bag, answered,
\* or stays in it, suspended.  A request that has just arrived is not in
\* the bag yet.
Settle(r, step) ==
  /\ state' = [state EXCEPT !.currentDomain = step.currentDomain]
  /\ IF step.pc = "done"
     THEN /\ last' = Answered(After(r, step), state.currentDomain, step.outcome,
                              CallToolReturn(step.outcome))
          /\ inflight' = inflight (-) SetToBag({r})
     ELSE /\ BagCardinality(inflight (-) SetToBag({r})) < Capacity
          /\ inflight' = (inflight (-) SetToBag({r})) (+) SetToBag({After(r, step)})
          /\ UNCHANGED last

\* Faulty variant: without an API key only the navigate tool is listed.
StdioListTools_HidesWithoutKey ==
  /\ authMode = "stdio"
  /\ last' = Answered(Req("list", <<>>, NoArgs, "stdio", Undefined),
                      state.currentDomain, NoOutcome,
                      IF apiKeyEnv = Undefined THEN [tools |-> <<navigateTool>>]
                      ELSE ListTools(state.currentDomain))
  /\ UNCHANGED <<state, _client, apiKeyEnv, authMode, built, inflight, called>>

\* Faulty variant: the list is computed from the Session State the request
\* answered before it had found.
StdioListTools_Stale ==
  /\ authMode = "stdio"
  /\ last' = Answered(Req("list", <<>>, NoArgs, "stdio", Undefined),
                      state.currentDomain, NoOutcome, ListTools(last.before))
  /\ UNCHANGED <<state, _client, apiKeyEnv, authMode, built, inflight, called>>

\* A list-tools request on the stdio transport.
StdioListTools ==
  /\ authMode = "stdio"
  /\ last' = Answered(Req("list", <<>>, NoArgs, "stdio", Undefined),
                      state.currentDomain, NoOutcome, ListTools(state.currentDomain))
  /\ UNCHANGED <<state, _client, apiKeyEnv, authMode, built, inflight, called>>

\* Faulty variant: a call-tool request is taken only when no handler is
\* suspended.
StdioCall_OneAtATime(inp) ==
  /\ authMode = "stdio"
  /\ inflight = EmptyBag
  /\ Settle(Req("call", inp.name, inp.args, "stdio", Undefined),
            CallToolStart(inp.name, inp.args, state.currentDomain, _client, apiKeyEnv))
  /\ called' = TRUE
  /\ UNCHANGED <<_client, apiKeyEnv, authMode, built>>

\* The call-tool request inp on the stdio transport: the handler runs up to
\* its first suspension.
StdioCall(inp) ==
  /\ authMode = "stdio"
  /\ Settle(Req("call", inp.name, inp.args, "stdio", Undefined),
            CallToolStart(inp.name, inp.args, state.currentDomain, _client, apiKeyEnv))
  /\ called' = TRUE
  /\ UNCHANGED <<_client, apiKeyEnv, authMode, built>>

\* A call-tool request on the stdio transport.
StdioCallTool == \E inp \in StdioCalls : StdioCall(inp)

\* Faulty variant: a failed import is memoized as a handle without a key.
ImportDone_RemembersFailure ==
  \E r \in InFlight, ok \in BOOLEAN :
    LET c == NewClient(r.creds, built + 1)
        b == IF r.args.present THEN r.args.bag ELSE NoFields
    IN  /\ r.pc = "importing"
        /\ IF ok
           THEN /\ _client' = c
                /\ built' = built + 1
                /\ Settle(r, WithClient(state.currentDomain, r.handler, r.name, b, c))
           ELSE /\ Settle(r, Done(state.currentDomain, r.handler, Threw(NotInstalledError)))
                /\ _client' = NewClient(Undefined, built + 1)
                /\ UNCHANGED built
        /\ UNCHANGED <<apiKeyEnv, authMode, called>>

\* The dynamic import of getClient settles: the client is constructed and
\* memoized and the handler goes on with it, or the failure is rethrown.
ImportDone ==
  \E r \in InFlight, ok \in BOOLEAN :
    LET c == NewClient(r.creds, built + 1)
        b == IF r.args.present THEN r.args.bag ELSE NoFields
    IN  /\ r.pc = "importing"
        /\ IF ok
           THEN /\ _client' = c
                /\ built' = built + 1
                /\ Settle(r, WithClient(state.currentDomain, r.handler, r.name, b, c))
           ELSE /\ Settle(r, Done(state.currentDomain, r.handler, Threw(NotInstalledError)))
                /\ UNCHANGED <<_client, built>>
        /\ UNCHANGED <<apiKeyEnv, authMode, called>>

\* Faulty variant: a failed upstream call is issued once more.
UpstreamDone_RetriesOnce ==
  \E r \in InFlight, answer \in UpstreamAnswers :
        /\ r.pc = "upstream"
        /\ Settle(r,
                  IF ~answer.ok /\ r.issued < 2
                  THEN Suspend(state.currentDomain, r.handler, "upstream", Undefined,
                               r.call, r.reply)
                  ELSE [Done(state.currentDomain, r.handler,
                             IF answer.ok
                             THEN Returned(HandlerReply(r.reply, answer.value))
                             ELSE Threw(answer.value))
                        EXCEPT !.call = r.call])
        /\ UNCHANGED <<_client, apiKeyEnv, authMode, built, called>>

\* The awaited upstream call settles.
UpstreamDone ==
  \E r \in InFlight, answer \in UpstreamAnswers :
        /\ r.pc = "upstream"
        /\ Settle(r,
                  [Done(state.currentDomain, r.handler,
                        IF answer.ok THEN Returned(HandlerReply(r.reply, answer.value))
                        ELSE Threw(answer.value))
                   EXCEPT !.call = r.call])
        /\ UNCHANGED <<_client, apiKeyEnv, authMode, built, called>>

Next == StdioListTools \/ StdioCallTool \/ ImportDone \/ UpstreamDone

Spec == Init /\ [][Next]_vars

\* ------------------------------------------------------ the HTTP transport

\* Who sends an HTTP request: the MCP session it speaks in and the
\* x-salesbuildr-api-key header it carries (undefined: no header).
HttpClients ==
  {[session |-> "s1", header |-> "KA"], [session |-> "s2", header |-> "KB"],
   [session |-> "s1", header |-> Undefined]}

\* The JSON-RPC request in the body of a POST /mcp.
HttpPayloads ==
  {[kind |-> "list", name |-> <<>>, args |-> NoArgs],
   [kind |-> "call", name |-> navigateTool, args |-> Args([domain |-> "companies"])],
   [kind |-> "call", name |-> backTool, args |-> NoArgs],
   [kind |-> "call", name |-> companyTools[1], args |-> NoArgs]}

InitHttp ==
  /\ state = [currentDomain |-> Null]
  /\ _client = NoClient
  /\ authMode \in {"env", "gateway"}
  /\ apiKeyEnv = (IF authMode = "env" THEN "KA" ELSE Undefined)
  /\ built = 0
  /\ inflight = EmptyBag
  /\ last = Answered(NoRequest, Null, NoOutcome, NoResponse)
  /\ called = FALSE

\* Faulty variant: the client is reset before the header is checked.
HttpRequestWith_ResetsFirst(path, who, p) ==
  /\ authMode # "stdio"
  /\ LET r == Req(p.kind, p.name, p.args, who.session, who.header)
         bare == Req(path, <<>>, NoArgs, who.session, who.header)
     IN  /\ path # "/mcp" => p.kind = "list"
         /\ IF path = "/health"
            THEN /\ last' = Answered(bare, state.currentDomain, NoOutcome,
                                     [status |-> 200])
                 /\ UNCHANGED <<_client, apiKeyEnv, built, inflight>>
            ELSE IF path = "/mcp"
            THEN IF authMode = "gateway" /\ (who.header = Undefined \/ who.header = "")
                 THEN /\ last' = Answered([r EXCEPT !.pc = "rejected"],
                                          state.currentDomain, NoOutcome,
                                          [status |-> 401])
                      /\ _client' = NoClient
                      /\ built' = 0
                      /\ UNCHANGED <<apiKeyEnv, inflight>>
                 ELSE /\ BagCardinality(inflight) < Capacity
                      /\ inflight' = inflight (+) SetToBag({r})
                      /\ IF authMode = "gateway"
                         THEN /\ _client' = NoClient
                              /\ built' = 0
                              /\ apiKeyEnv' = who.header
                         ELSE UNCHANGED <<_client, apiKeyEnv, built>>
                      /\ UNCHANGED last
            ELSE /\ last' = Answered(bare, state.currentDomain, NoOutcome,
                                     [status |-> 404])
                 /\ UNCHANGED <<_client, apiKeyEnv, built, inflight>>
  /\ UNCHANGED <<state, authMode, called>>

\* Faulty variant: a key header is consumed in env mode as well.
HttpRequestWith_HeaderInEnvMode(path, who, p) ==
  /\ authMode # "stdio"
  /\ LET r == Req(p.kind, p.name, p.args, who.session, who.header)
         bare == Req(path, <<>>, NoArgs, who.session, who.header)
     IN  /\ path # "/mcp" => p.kind = "list"
         /\ IF path = "/health"
            THEN /\ last' = Answered(bare, state.currentDomain, NoOutcome,
                                     [status |-> 200])
                 /\ UNCHANGED <<_client, apiKeyEnv, built, inflight>>
            ELSE IF path = "/mcp"
            THEN IF authMode = "gateway" /\ (who.header = Undefined \/ who.header = "")
                 THEN /\ last' = Answered([r EXCEPT !.pc = "rejected"],
                                          state.currentDomain, NoOutcome,
                                          [status |-> 401])
                      /\ UNCHANGED <<_client, apiKeyEnv, built, inflight>>
                 ELSE /\ BagCardinality(inflight) < Capacity
                      /\ inflight' = inflight (+) SetToBag({r})
                      /\ IF who.header \notin {Undefined, ""}
                         THEN /\ _client' = NoClient
                              /\ built' = 0
                              /\ apiKeyEnv' = who.header
                         ELSE UNCHANGED <<_client, apiKeyEnv, built>>
                      /\ UNCHANGED last
            ELSE /\ last' = Answered(bare, state.currentDomain, NoOutcome,
                                     [status |-> 404])
                 /\ UNCHANGED <<_client, apiKeyEnv, built, inflight>>
  /\ UNCHANGED <<state, authMode, called>>

\* The request listener of startHttpTransport, for the request p sent by
\* who to path.  A /mcp request that passes it is handed to the transport,
\* which reads the body before the server's handler runs: the request waits
\* in a slot.
HttpRequestWith(path, who, p) ==
  /\ authMode # "stdio"
  /\ LET r == Req(p.kind, p.name, p.args, who.session, who.header)
         bare == Req(path, <<>>, NoArgs, who.session, who.header)
     IN  /\ path # "/mcp" => p.kind = "list"
         /\ IF path = "/health"
            THEN /\ last' = Answered(bare, state.currentDomain, NoOutcome,
                                     [status |-> 200])
                 /\ UNCHANGED <<_client, apiKeyEnv, built, inflight>>
            ELSE IF path = "/mcp"
            THEN IF authMode = "gateway" /\ (who.header = Undefined \/ who.header = "")
                 THEN /\ last' = Answered([r EXCEPT !.pc = "rejected"],
                                          state.currentDomain, NoOutcome,
                                          [status |-> 401])
                      /\ UNCHANGED <<_client, apiKeyEnv, built, inflight>>
                 ELSE /\ BagCardinality(inflight) < Capacity
                      /\ inflight' = inflight (+) SetToBag({r})
                      /\ IF authMode = "gateway"
                         THEN /\ _client' = NoClient
                              /\ built' = 0
                              /\ apiKeyEnv' = who.header
                         ELSE UNCHANGED <<_client, apiKeyEnv, built>>
                      /\ UNCHANGED last
            ELSE /\ last' = Answered(bare, state.currentDomain, NoOutcome,
                                     [status |-> 404])
                 /\ UNCHANGED <<_client, apiKeyEnv, built, inflight>>
  /\ UNCHANGED <<state, authMode, called>>

\* An HTTP request arrives.
HttpRequest ==
  \E path \in {"/health", "/mcp", "/other"}, who \in HttpClients, p \in HttpPayloads :
    HttpRequestWith(path, who, p)

\* The transport has read a queued request and the server runs its handler,
\* up to the first suspension.
HandleQueued ==
  \E r \in InFlight :
    /\ r.pc = "queued"
    /\ IF r.kind = "list"
       THEN /\ last' = Answered(r, state.currentDomain, NoOutcome,
                                ListTools(state.currentDomain))
            /\ inflight' = inflight (-) SetToBag({r})
            /\ UNCHANGED <<state, called>>
       ELSE /\ Settle(r, CallToolStart(r.name, r.args, state.currentDomain,
                                       _client, apiKeyEnv))
            /\ called' = TRUE
    /\ UNCHANGED <<_client, apiKeyEnv, authMode, built>>

NextHttp == HttpRequest \/ HandleQueued \/ ImportDone \/ UpstreamDone

SpecHttp == InitHttp /\ [][NextHttp]_vars

\* ------------------------------------------------ the credential header

\* Senders of one session: without the key header, with an empty one and
\* with a key that differs from the one of the process environment.
HeaderClients == {[session |-> "s1", header |-> h] : h \in {Undefined, "", "KB"}}

\* A list-tools query, a navigate call and a domain call that needs the
\* client.
HeaderPayloads ==
  {[kind |-> "list", name |-> <<>>, args |-> NoArgs],
   [kind |-> "call", name |-> navigateTool, args |-> Args([domain |-> "companies"])],
   [kind |-> "call", name |-> companyTools[1], args |-> NoArgs]}

HttpHeaderRequest ==
  \E path \in {"/health", "/mcp", "/other"}, who \in HeaderClients, p \in HeaderPayloads :
    HttpRequestWith(path, who, p)

NextHeader == HttpHeaderRequest \/ HandleQueued \/ ImportDone \/ UpstreamDone

SpecHeader == InitHttp /\ [][NextHeader]_vars

\* ------------------------------------------- domain calls with arguments

\* Every registered domain tool.
DomainTools ==
  UNION {{getDomainTools(d)[i] : i \in 1 .. Len(getDomainTools(d))} : d \in DomainSet}

\* The first field the input schema of a domain's create tool requires.
RequiredOnCreate(resource) ==
  CASE resource = "companies" -> "name"
    [] resource = "contacts" -> "firstName"
    [] OTHER -> "title"

\* The fields the input schema of a tool declares required.
Required(name) ==
  CASE name[5] \in {"get", "update", "delete"} -> {"id"}
    [] name[5] = "create" /\ name[3] = "companies" -> {"name"}
    [] name[5] = "create" /\ name[3] = "contacts" -> {"firstName", "lastName"}
    [] name[5] = "create" -> {"title"}
    [] OTHER -> {}

\* The argument mappings a caller sends with the tool: none, the empty one,
\* the identifier alone, a data field alone, and both.
ArgumentBags(name) ==
  LET f == RequiredOnCreate(name[3])
  IN  {NoArgs, Args(NoFields), Args([id |-> "42"]), Args([k \in {f} |-> "Acme"]),
       Args([k \in {"id", f} |-> IF k = "id" THEN "42" ELSE "Acme"])}

\* A name in the namespace of each domain that no tool table registers.
UnknownOperations == {<<"salesbuildr", "_", d, "_", "export">> : d \in DomainSet}

\* Argument mappings for the list tools: query and pagination fields with
\* a field outside every contract, and the filter fields with another.
ListBags ==
  {Args([query |-> "acme", from |-> "0", size |-> "10", extra |-> "x"]),
   Args([companyId |-> "7", opportunityId |-> "9", sort |-> "asc"])}

ArgCalls ==
  UNION {{[name |-> n, args |-> a] : a \in ArgumentBags(n)} : n \in DomainTools}
  \cup {[name |-> n, args |-> NoArgs] : n \in UnknownOperations}
  \cup {[name |-> getDomainTools(d)[1], args |-> a] : d \in DomainSet, a \in ListBags}

\* A call-tool request for a domain tool, with any of the argument
\* mappings, from a caller that awaits each response before it sends the
\* next request.
StdioCallWithArgs ==
  /\ inflight = EmptyBag
  /\ \E inp \in ArgCalls : StdioCall(inp)

NextArgs == StdioCallWithArgs \/ ImportDone \/ UpstreamDone

SpecArgs == Init /\ [][NextArgs]_vars

\* ------------------------------------------------- the navigation machine

\* The calls that drive the navigation machine: every navigate input, back,
\* and one domain tool whose handler suspends.
NavCalls ==
  NavigateInputs \cup {[name |-> backTool, args |-> NoArgs],
                       [name |-> productTools[1], args |-> NoArgs]}

StdioNavCall == \E inp \in NavCalls : StdioCall(inp)

NextNav == StdioListTools \/ StdioNavCall \/ ImportDone \/ UpstreamDone

SpecNav == Init /\ [][NextNav]_vars

\* ------------------------------------------------------ the quote scenario

\* The arguments of a quotes create call: a title and one line item.
ScenarioArgs ==
  [title |-> "Q1",
   items |-> <<[name |-> "Firewall", quantity |-> 1, unitPrice |-> 999]>>]

\* The calls of the quote scenario: navigate to quotes, list the quotes,
\* create a quote (with and without a caller-supplied id), back.
ScenarioCalls ==
  {[name |-> navigateTool, args |-> Args([domain |-> "quotes"])],
   [name |-> quoteTools[1], args |-> NoArgs],
   [name |-> quoteTools[3], args |-> Args(ScenarioArgs)],
   [name |-> quoteTools[3], args |-> Args(ScenarioArgs @@ [id |-> "7"])],
   [name |-> backTool, args |-> NoArgs]}

StdioScenarioCall == \E inp \in ScenarioCalls : StdioCall(inp)

NextScenario == StdioListTools \/ StdioScenarioCall \/ ImportDone \/ UpstreamDone

SpecScenario == Init /\ [][NextScenario]_vars

\* ================================================================ claims

\* The namespace prefix salesbuildr_<d>_ of a domain.
Prefix(d) == <<"salesbuildr", "_", d, "_">>

Range(f) == {f[i] : i \in DOMAIN f}

IsEnvelope(e) ==
  /\ DOMAIN e \in {{"content"}, {"content", "isError"}}
  /\ Len(e.content) >= 1
  /\ \A i \in 1 .. Len(e.content) : e.content[i].type = "text"

IsErrorEnvelope(e) == IsEnvelope(e) /\ "isError" \in DOMAIN e /\ e.isError = TRUE

RootList == [tools |-> <<navigateTool>>]

DomainList(d) == [tools |-> <<backTool>> \o getDomainTools(d)]

\* The request answered last is a navigate call whose domain argument is d.
NavigatedTo(d) ==
  /\ last.req.kind = "call"
  /\ last.req.name = navigateTool
  /\ last.req.args.present
  /\ Get(last.req.args.bag, "domain") = d

\* C1: in a fresh session, before any call-tool request has reached the
\* router, list-tools returns exactly [salesbuildr_navigate].
C1_FreshSessionListsNavigateOnly ==
  ~called =>
    /\ ListTools(state.currentDomain) = RootList
    /\ last.req.kind = "list" => last.response = [tools |-> <<navigateTool>>]

C1_Witness ==
  ~called /\ last.req.kind = "list" /\ last.response = [tools |-> <<navigateTool>>]

\* C2: once navigate(d) with a registered d has been answered, list-tools
\* returns the back tool followed by exactly the tools registered for d, in
\* registration order (no navigate tool, no tool of another domain); and a
\* back that follows it makes list-tools return [salesbuildr_navigate] again.
C2_AfterNavigate ==
  \A d \in DomainSet :
    NavigatedTo(d) =>
      LET l == ListTools(state.currentDomain)
      IN  /\ l = DomainList(d)
          /\ l.tools[1] = backTool
          /\ \A i \in 2 .. Len(l.tools) :
               /\ StartsWith(l.tools[i], Prefix(d))
               /\ l.tools[i] # navigateTool
               /\ \A e \in DomainSet \ {d} : l.tools[i] \notin Range(getDomainTools(e))

C2_BackAfterNavigate ==
  (/\ \E d \in DomainSet : NavigatedTo(d)
   /\ last'.req.kind = "call"
   /\ last'.req.name = backTool
   /\ last' # last)
  => ListTools(state'.currentDomain) = RootList

C2_NavigateRoundTrip == [](C2_AfterNavigate) /\ [][C2_BackAfterNavigate]_vars

C2_Witness ==
  /\ last.req.kind = "list"
  /\ last.before = "opportunities"
  /\ last.response = [tools |-> <<backTool>> \o opportunityTools]

\* C3: currentDomain is always none (null) or one of the five registered
\* domain identifiers.
C3_CurrentDomainIsRegistered == state.currentDomain \in DomainSet \cup {Null}

\* C4: a navigate call whose domain argument is not a registered domain (or
\* is missing) returns an error envelope, leaves Session State unchanged,
\* and the next list-tools query is served normally.
C4_InvalidNavigateIsHarmless ==
  (/\ last.req.kind = "call"
   /\ last.req.name = navigateTool
   /\ Get(last.req.args.bag, "domain") \notin DomainSet)
  => /\ IsErrorEnvelope(last.response)
     /\ state.currentDomain = last.before
     /\ "tools" \in DOMAIN ListTools(state.currentDomain)

\* C5: in every reachable state list-tools succeeds, and its result is
\* [navigate] or [back] followed by the tools of one registered domain.
C5_ListToolsAlwaysServes ==
  ListTools(state.currentDomain) \in {RootList} \cup {DomainList(d) : d \in DomainSet}

\* C6: in gateway mode every upstream call made for a request that carries
\* the key K uses a client built from K.
C6_NoCrossTenantKey ==
  authMode = "gateway" =>
    \A r \in InFlight \cup {last.req} :
      r.call # NoCall => r.call.apiKey = r.header

\* The tool list a list-tools query of session s is answered with.
SessionView(s) == ListTools(state.currentDomain)

\* The step runs the handler of the queued request r to its answer.
Handles(r) ==
  /\ r \in InFlight
  /\ r.pc = "queued"
  /\ inflight' = inflight (-) SetToBag({r})
  /\ last'.req = [r EXCEPT !.pc = "done"]

\* C7: a navigate or back call of one session never changes the tool list
\* another session observes.
C7_SessionStateIsPerSession ==
  [][\A r \in InFlight, s \in {"s1", "s2"} :
       (Handles(r) /\ r.name \in {navigateTool, backTool} /\ s # r.session)
       => SessionView(s)' = SessionView(s)]_vars

\* C8: every call-tool request is answered with a Response Envelope,
\* whatever its name and arguments and whatever fails on the way.
C8_RouterNeverRaises ==
  last.req.kind = "call" /\ last.req.pc = "done" =>
    /\ IsEnvelope(last.response)
    /\ last.outcome.threw =>
         last.response = [content |-> <<[type |-> "text",
                                         text |-> <<"Error: ", last.outcome.error>>]>>,
                          isError |-> TRUE]

C8_Witness ==
  /\ last.req.kind = "call"
  /\ last.outcome.threw
  /\ last.outcome.error = "Request failed with status 500"
  /\ IsErrorEnvelope(last.response)

\* The name is neither reserved nor prefixed by a registered namespace.
Unrecognized(name) ==
  /\ name \notin {navigateTool, backTool}
  /\ \A d \in DomainSet : ~StartsWith(name, Prefix(d))

\* C9: a call of an unrecognized name returns an error envelope that names
\* the tool and says to navigate first, makes no upstream call and leaves
\* Session State unchanged.
C9_UnknownToolIsRejected ==
  last.req.kind = "call" /\ last.req.pc = "done" /\ Unrecognized(last.req.name) =>
    /\ last.response =
         [content |-> <<[type |-> "text",
                         text |-> <<"Unknown tool: ">> \o last.req.name
                                  \o <<". Use salesbuildr_navigate to select a domain first.">>]>>,
          isError |-> TRUE]
    /\ last.req.call = NoCall
    /\ last.req.handler = "none"
    /\ state.currentDomain = last.before

C9_Witness ==
  /\ last.req.kind = "call"
  /\ last.req.name = <<"salesbuildr", "_", "companies">>
  /\ last.before = "companies"
  /\ state.currentDomain = "companies"
  /\ IsErrorEnvelope(last.response)

HandlerOf(d) ==
  CASE d = "companies" -> "handleCompanyTool"
    [] d = "contacts" -> "handleContactTool"
    [] d = "products" -> "handleProductTool"
    [] d = "opportunities" -> "handleOpportunityTool"
    [] d = "quotes" -> "handleQuoteTool"

\* C10: a domain-prefixed call is delegated to the handler of the domain
\* its prefix names, whatever the Session State is, and the envelope the
\* handler returns is the response, unchanged.
C10_DispatchIsStateless ==
  \A d \in DomainSet :
    /\ \A r \in InFlight \cup {last.req} :
         (r.kind = "call" /\ r.pc \in {"importing", "upstream", "done"}
          /\ StartsWith(r.name, Prefix(d)))
         => /\ r.handler = HandlerOf(d)
            /\ r.call # NoCall => r.call.resource = d
    /\ (last.req.kind = "call" /\ StartsWith(last.req.name, Prefix(d))
        /\ ~last.outcome.threw)
       => last.response = last.outcome.value

C10_Witness ==
  /\ last.req.kind = "call"
  /\ last.req.name = <<"salesbuildr", "_", "quotes", "_", "delete">>
  /\ last.before = "contacts"
  /\ last.req.handler = "handleQuoteTool"
  /\ ~last.outcome.threw
  /\ last.response = last.outcome.value

\* The step answers a call-tool request with the given name.
Answers(name) ==
  /\ last' # last
  /\ last'.req.kind = "call"
  /\ last'.req.name = name

\* C11: Session State changes only in the step that answers a
\* salesbuildr_navigate or salesbuildr_back call; list-tools queries, domain
\* tool calls (whatever their outcome) and unknown-tool calls leave
\* currentDomain as it was.
C11_OnlyNavigationChangesState ==
  [][state' # state => Answers(navigateTool) \/ Answers(backTool)]_vars

C11_Witness ==
  /\ last.req.kind = "call"
  /\ last.req.handler = "handleCompanyTool"
  /\ last.outcome.threw
  /\ last.outcome.error = "Request failed with status 500"
  /\ last.before = "quotes"
  /\ state.currentDomain = "quotes"

\* C12: navigate is accepted inside a domain as well: once navigate(B) has
\* been answered in InDomain(A), A # B, the response is a success envelope
\* and list-tools returns the back tool plus the tools of B only; one back
\* after it returns to the root.
C12_Replaced ==
  \A a \in DomainSet : \A b \in DomainSet \ {a} :
    (NavigatedTo(b) /\ last.before = a) =>
      /\ DOMAIN last.response = {"content"}
      /\ state.currentDomain = b
      /\ ListTools(state.currentDomain) = [tools |-> <<backTool>> \o getDomainTools(b)]
      /\ \A t \in Range(getDomainTools(a)) :
           t \notin Range(ListTools(state.currentDomain).tools)

C12_OneBackToRoot ==
  (/\ \E a \in DomainSet : \E b \in DomainSet \ {a} : NavigatedTo(b) /\ last.before = a
   /\ Answers(backTool))
  => /\ state'.currentDomain = Null
     /\ ListTools(state'.currentDomain) = [tools |-> <<navigateTool>>]

C12_DomainSwitchReplaces == [](C12_Replaced) /\ [][C12_OneBackToRoot]_vars

C12_Witness ==
  /\ NavigatedTo("quotes")
  /\ last.before = "companies"
  /\ state.currentDomain = "quotes"
  /\ DOMAIN last.response = {"content"}

\* C13: a back call, from any state, leaves currentDomain none and is
\* answered with a success envelope; at the root it changes nothing and
\* list-tools returns [navigate] after it.
C13_BackIsIdempotent ==
  (last.req.kind = "call" /\ last.req.name = backTool) =>
    /\ state.currentDomain = Null
    /\ last.response = [content |-> <<[type |-> "text", text |-> BackText]>>]
    /\ "isError" \notin DOMAIN last.response
    /\ ListTools(state.currentDomain) = [tools |-> <<navigateTool>>]

C13_Witness ==
  /\ last.req.kind = "call"
  /\ last.req.name = backTool
  /\ last.before = Null
  /\ state.currentDomain = Null
  /\ "isError" \notin DOMAIN last.response

\* C14: in every reachable state a back call is enabled and leads to the
\* root, and for every registered d a navigate(d) call is enabled and leads
\* to InDomain(d); every step that changes Session State is one of these
\* two transitions.
C14_NavigationEnabled ==
  /\ ENABLED (/\ StdioCall([name |-> backTool, args |-> NoArgs])
              /\ state'.currentDomain = Null)
  /\ \A d \in DomainSet :
       ENABLED (/\ StdioCall([name |-> navigateTool, args |-> Args([domain |-> d])])
                /\ NavigatedTo(d)'
                /\ state'.currentDomain = d)

C14_Transitions ==
  state' # state =>
    \/ Answers(backTool) /\ state'.currentDomain = Null
    \/ Answers(navigateTool)
       /\ state'.currentDomain = Get(last'.req.args.bag, "domain")

Succeeded ==
  /\ ~last.outcome.threw
  /\ last.req.name \in {navigateTool, backTool} \/ last.req.call # NoCall

\* C15: a domain tool call that fails (the upstream call or the client
\* construction throws) is answered with an envelope whose isError is true
\* and whose content is exactly one text block containing the failure's
\* message; a call that succeeds is answered with an envelope that has no
\* isError field.
C15_EnvelopeShape ==
  (last.req.kind = "call" /\ last.req.pc = "done") =>
    /\ (last.req.handler # "none" /\ last.outcome.threw) =>
         /\ DOMAIN last.response = {"content", "isError"}
         /\ last.response.isError = TRUE
         /\ Len(last.response.content) = 1
         /\ last.response.content[1].type = "text"
         /\ last.outcome.error \in Range(last.response.content[1].text)
    /\ Succeeded => DOMAIN last.response = {"content"}

C15_Witness ==
  /\ last.req.kind = "call"
  /\ last.req.handler = "handleContactTool"
  /\ last.outcome.threw
  /\ last.outcome.error = NotInstalledError
  /\ last.response.isError = TRUE

\* The argument mapping the router hands to the handler of request r.
ToolArgs(r) == IF r.args.present THEN r.args.bag ELSE [k \in {} |-> Undefined]

\* The requests for which an upstream call has been issued.
Issued == {r \in InFlight \cup {last.req} : r.kind = "call" /\ r.issued > 0}

CreateTools ==
  {<<"salesbuildr", "_", d, "_", "create">> :
     d \in {"companies", "contacts", "opportunities", "quotes"}}

UpdateTools ==
  {<<"salesbuildr", "_", d, "_", "update">> :
     d \in {"companies", "contacts", "opportunities"}}

\* C16: the payload a create tool passes to the upstream create call is the
\* argument mapping without its id field, every other field unchanged; no
\* identifier is passed.
C16_CreateStripsIdentity ==
  \A r \in Issued :
    r.name \in CreateTools =>
      /\ r.call.resource = r.name[3]
      /\ r.call.method = "create"
      /\ r.call.id = Undefined
      /\ "id" \notin DOMAIN r.call.data
      /\ DOMAIN r.call.data = DOMAIN ToolArgs(r) \ {"id"}
      /\ \A k \in DOMAIN r.call.data : r.call.data[k] = ToolArgs(r)[k]

C16_Witness ==
  \E r \in InFlight :
    /\ r.name = <<"salesbuildr", "_", "quotes", "_", "create">>
    /\ r.pc = "upstream"
    /\ r.args = [present |-> TRUE, bag |-> [id |-> "42", title |-> "Acme"]]
    /\ r.call.data = [title |-> "Acme"]

\* C17: an update tool calls upstream update(id, data) with the id argument
\* as id and the argument mapping without its id field as data (the empty
\* mapping when only id was given).
C17_UpdateSeparatesIdentity ==
  \A r \in Issued :
    r.name \in UpdateTools =>
      /\ r.call.resource = r.name[3]
      /\ r.call.method = "update"
      /\ r.call.id = (IF "id" \in DOMAIN ToolArgs(r) THEN ToolArgs(r).id ELSE Undefined)
      /\ "id" \notin DOMAIN r.call.data
      /\ DOMAIN r.call.data = DOMAIN ToolArgs(r) \ {"id"}
      /\ \A k \in DOMAIN r.call.data : r.call.data[k] = ToolArgs(r)[k]
      /\ DOMAIN ToolArgs(r) = {"id"} => r.call.data = <<>>

C17_Witness ==
  /\ last.req.name = <<"salesbuildr", "_", "companies", "_", "update">>
  /\ last.req.args = [present |-> TRUE, bag |-> [id |-> "42"]]
  /\ last.req.call.id = "42"
  /\ last.req.call.data = <<>>
  /\ ~last.outcome.threw

\* C18: with no API key configured when the client is to be constructed, a
\* domain tool call is answered with an error envelope whose text names the
\* missing SALESBUILDR_API_KEY setting, no upstream call is issued, Session
\* State is left as it was, and the server takes the next request.
C18_MissingKeyFailsTheCallOnly ==
  (authMode = "stdio" /\ apiKeyEnv \in {Undefined, ""}) =>
    /\ \A r \in InFlight \cup {last.req} : r.issued = 0 /\ r.call = NoCall
    /\ (last.req.kind = "call" /\ last.req.pc = "done"
        /\ \E d \in DomainSet : StartsWith(last.req.name, Prefix(d)))
       => /\ last.response =
               [content |->
                  <<[type |-> "text",
                     text |-> <<"Error: ",
                                "SALESBUILDR_API_KEY environment variable is required. Set it to your SalesBuildr API key from your account settings.">>]>>,
                isError |-> TRUE]
          /\ state.currentDomain = last.before
          /\ ENABLED StdioListTools
          /\ ENABLED StdioCallTool

C18_Witness ==
  /\ apiKeyEnv = Undefined
  /\ last.req.kind = "call"
  /\ last.req.name = <<"salesbuildr", "_", "quotes", "_", "list">>
  /\ last.before = "quotes"
  /\ state.currentDomain = "quotes"
  /\ last.outcome.error = MissingKeyError
  /\ last.response.isError = TRUE

\* C19: a domain tool call that omits an argument its input schema
\* requires is answered with an error envelope.
C19_MissingArgumentIsAnError ==
  (/\ last.req.kind = "call"
   /\ last.req.pc = "done"
   /\ last.req.name \in DomainTools
   /\ ~(Required(last.req.name) \subseteq DOMAIN ToolArgs(last.req)))
  => IsErrorEnvelope(last.response)

\* The call answered last failed while the client was being obtained.
NoClientObtained == last.outcome.error \in {MissingKeyError, NotInstalledError}

\* C20 as stated: no request has more than one upstream call issued for it;
\* an answered navigate, back or unknown-tool call has none, and an answered
\* call of a registered domain operation has exactly one.
C20_ExactlyOnePerOperation ==
  /\ \A r \in InFlight \cup {last.req} : r.issued <= 1
  /\ (last.req.kind = "call" /\ last.req.pc = "done") =>
       /\ (last.req.name \in {navigateTool, backTool} \/ Unrecognized(last.req.name))
          => last.req.issued = 0
       /\ last.req.name \in DomainTools => last.req.issued = 1

\* C20, amended: no request has more than one upstream call issued for it;
\* an answered navigate, back or unknown-tool call has none; an answered
\* call of a registered domain operation has exactly one when its handler
\* obtained the client (also when that call failed), and none when the
\* client could not be obtained.
C20_AtMostOneUpstreamCall ==
  /\ \A r \in InFlight \cup {last.req} : r.issued <= 1
  /\ (last.req.kind = "call" /\ last.req.pc = "done") =>
       /\ (last.req.name \in {navigateTool, backTool} \/ Unrecognized(last.req.name))
          => last.req.issued = 0
       /\ last.req.name \in DomainTools =>
            last.req.issued = (IF NoClientObtained THEN 0 ELSE 1)

C20_Witness ==
  /\ last.req.kind = "call"
  /\ last.req.name = <<"salesbuildr", "_", "contacts", "_", "list">>
  /\ last.outcome.threw
  /\ last.outcome.error = "Request failed with status 500"
  /\ last.req.issued = 1

\* The step answers a list-tools query.
AnswersList == last' # last /\ last'.req.kind = "list"

\* C21: the Session State effects of the requests of the session take place
\* in arrival order.  A navigate or back call is never suspended: the step
\* in which it arrives answers it, having read the state as the request
\* before it left it and leaving the state it writes to the next one, also
\* while a domain tool call awaits its upstream response; a list-tools
\* query is answered from the state the request before it left.
C21_NavigationNeverSuspended ==
  \A r \in InFlight : r.name \notin {navigateTool, backTool}

C21_InOrder ==
  /\ (Answers(navigateTool) \/ Answers(backTool) \/ AnswersList) =>
       /\ last'.before = state.currentDomain
       /\ inflight' = inflight
  /\ AnswersList =>
       /\ state' = state
       /\ last'.response = ListTools(state.currentDomain)
  /\ Answers(backTool) => state'.currentDomain = Null
  /\ (Answers(navigateTool) /\ last'.req.args.present) =>
       state'.currentDomain = Get(last'.req.args.bag, "domain")

C21_ArrivalOrder == [](C21_NavigationNeverSuspended) /\ [][C21_InOrder]_vars

C21_Witness ==
  /\ \E r \in InFlight : r.pc = "upstream" /\ r.name = companyTools[1]
  /\ last.req.kind = "list"
  /\ last.before = "contacts"
  /\ last.response = [tools |-> <<backTool>> \o contactTools]

\* C22: between two consecutive resetClient calls at most one client is
\* constructed, and with no resetClient at all (env mode) every upstream
\* call is made through the same handle, also when several getClient calls
\* are in flight at the same time.
C22_ClientIsMemoized ==
  /\ built <= 1
  /\ authMode = "env" =>
       \A r1, r2 \in InFlight \cup {last.req} :
         (r1.call # NoCall /\ r2.call # NoCall) => r1.call.serial = r2.call.serial

\* C23: in gateway mode every credential change comes with a resetClient,
\* so a getClient that starts now either builds a client from the
\* credential configured now or returns a handle that was built from it.
C23_ResetForcesRederivation ==
  (authMode = "gateway" /\ apiKeyEnv # Undefined) =>
    LET g == getClientStart(_client, apiKeyEnv)
    IN  \/ g.kind = "import" /\ g.creds = apiKeyEnv
        \/ g.kind = "have" /\ g.client.apiKey = apiKeyEnv

\* The names of the tools, each of five pieces, joined with ", ": piece i of
\* the text is the separator at every sixth place and otherwise the next
\* piece of the next name.
CommaJoined(tools) ==
  [i \in 1 .. (6 * Len(tools) - 1) |->
     IF i % 6 = 0 THEN ", " ELSE tools[((i - 1) \div 6) + 1][((i - 1) % 6) + 1]]

\* C24: a navigate(d) with d registered is answered with a success envelope
\* of one text block that names d and lists, comma-joined and in
\* registration order, exactly the tools list-tools shows after the back
\* tool.
C24_NavigateSummary ==
  \A d \in DomainSet :
    NavigatedTo(d) =>
      /\ DOMAIN last.response = {"content"}
      /\ Len(last.response.content) = 1
      /\ last.response.content[1].type = "text"
      /\ last.response.content[1].text =
           <<"Navigated to ", d, " domain. Available tools: ">>
           \o CommaJoined(Tail(ListTools(state.currentDomain).tools))

C24_Witness ==
  /\ NavigatedTo("products")
  /\ last.response.content[1].text =
       <<"Navigated to ", "products", " domain. Available tools: ",
         "salesbuildr", "_", "products", "_", "list", ", ",
         "salesbuildr", "_", "products", "_", "get">>

\* C25: every tool registered for domain d has a name that starts with
\* salesbuildr_<d>_, no two registered tools share a name, within a domain
\* or across domains, and no domain tool is named salesbuildr_navigate or
\* salesbuildr_back; the list the server shows in any state names no tool
\* twice.
C25_NamesUniqueAndNamespaced ==
  /\ \A d \in DomainSet :
       LET tools == getDomainTools(d)
       IN  /\ \A i \in 1 .. Len(tools) :
                /\ Len(tools[i]) > 4
                /\ SubSeq(tools[i], 1, 4) = <<"salesbuildr", "_", d, "_">>
                /\ tools[i] \notin {<<"salesbuildr", "_", "navigate">>,
                                    <<"salesbuildr", "_", "back">>}
           /\ \A i, j \in 1 .. Len(tools) : tools[i] = tools[j] => i = j
           /\ \A e \in DomainSet \ {d} :
                Range(tools) \cap Range(getDomainTools(e)) = {}
  /\ navigateTool # backTool
  /\ LET l == ListTools(state.currentDomain)
     IN  "tools" \in DOMAIN l =>
           \A i, j \in 1 .. Len(l.tools) : l.tools[i] = l.tools[j] => i = j

C25_Witness ==
  /\ last.req.kind = "list"
  /\ last.before = "companies"
  /\ last.response = [tools |-> <<backTool>> \o companyTools]
  /\ \A i \in 2 .. Len(last.response.tools) :
       SubSeq(last.response.tools[i], 1, 4) = <<"salesbuildr", "_", "companies", "_">>

\* C26: the quote scenario.  From the root, navigate(quotes) leads into
\* quotes; list-tools then returns [back, quotes list, quotes get, quotes
\* create] in that order; the create call with a title and one line item
\* makes one upstream create whose payload is those arguments, without an
\* id; back leads to the root, where list-tools returns [navigate].
C26_InQuotes ==
  /\ NavigatedTo("quotes") =>
       state.currentDomain = "quotes" /\ "isError" \notin DOMAIN last.response
  /\ (last.req.kind = "list" /\ last.before = "quotes") =>
       last.response =
         [tools |-> << <<"salesbuildr", "_", "back">>,
                       <<"salesbuildr", "_", "quotes", "_", "list">>,
                       <<"salesbuildr", "_", "quotes", "_", "get">>,
                       <<"salesbuildr", "_", "quotes", "_", "create">> >>]
  /\ \A r \in InFlight \cup {last.req} :
       (r.name = <<"salesbuildr", "_", "quotes", "_", "create">> /\ r.issued > 0) =>
         /\ r.issued = 1
         /\ r.call.resource = "quotes"
         /\ r.call.method = "create"
         /\ r.call.data =
              [title |-> "Q1",
               items |-> <<[name |-> "Firewall", quantity |-> 1, unitPrice |-> 999]>>]
  /\ (last.req.kind = "call" /\ last.req.name = backTool) => state.currentDomain = Null
  /\ (last.req.kind = "list" /\ last.before = Null) =>
       last.response = [tools |-> << <<"salesbuildr", "_", "navigate">> >>]

C26_StepByStep ==
  /\ (state.currentDomain = Null /\ Answers(navigateTool)) =>
       state'.currentDomain = "quotes"
  /\ (NavigatedTo("quotes") /\ AnswersList) =>
       Len(last'.response.tools) = 4 /\ last'.response.tools[1] = backTool
  /\ (state.currentDomain = "quotes" /\ Answers(quoteTools[3])) =>
       /\ state'.currentDomain = "quotes"
       /\ last'.req.issued <= 1
       /\ ~last'.outcome.threw => "isError" \notin DOMAIN last'.response
  /\ (state.currentDomain = "quotes" /\ Answers(backTool)) =>
       ListTools(state'.currentDomain) = [tools |-> <<navigateTool>>]

C26_QuoteScenario == [](C26_InQuotes) /\ [][C26_StepByStep]_vars

C26_Witness ==
  /\ last.req.kind = "call"
  /\ last.req.name = <<"salesbuildr", "_", "quotes", "_", "create">>
  /\ last.req.args.bag = ScenarioArgs
  /\ last.before = "quotes"
  /\ ~last.outcome.threw
  /\ last.req.issued = 1
  /\ last.req.call.data = ScenarioArgs
  /\ state.currentDomain = "quotes"

\* The text "Unknown <entity> tool: " for the handler of domain d.
UnknownOperationText(d) ==
  CASE d = "companies" -> "Unknown company tool: "
    [] d = "contacts" -> "Unknown contact tool: "
    [] d = "products" -> "Unknown product tool: "
    [] d = "opportunities" -> "Unknown opportunity tool: "
    [] d = "quotes" -> "Unknown quote tool: "

\* The call answered last names an unregistered operation of domain d.
UnknownOperationOf(d) ==
  /\ last.req.kind = "call"
  /\ last.req.pc = "done"
  /\ StartsWith(last.req.name, Prefix(d))
  /\ last.req.name \notin DomainTools

\* C27 as stated: a call whose name carries the prefix of domain d but is
\* not one of its registered operations is answered, whatever the
\* credential and the client memo are, with an error envelope whose text is
\* "Unknown <entity> tool: <name>", and no upstream call is made.
C27_UnknownOperationAlways ==
  \A d \in DomainSet :
    UnknownOperationOf(d) =>
      /\ last.response =
           [content |-> <<[type |-> "text",
                           text |-> <<UnknownOperationText(d)>> \o last.req.name]>>,
            isError |-> TRUE]
      /\ last.req.issued = 0

\* C27, amended: such a call makes no upstream call and is answered with an
\* error envelope; its text is "Unknown <entity> tool: <name>" when the
\* handler obtained the client, and the message of the client failure
\* (missing key, client package not installed) when it did not.
C27_UnknownOperationIsRejected ==
  \A d \in DomainSet :
    UnknownOperationOf(d) =>
      /\ last.req.issued = 0
      /\ last.req.call = NoCall
      /\ last.req.handler = HandlerOf(d)
      /\ DOMAIN last.response = {"content", "isError"}
      /\ last.response.isError = TRUE
      /\ Len(last.response.content) = 1
      /\ last.response.content[1].text =
           (IF NoClientObtained THEN <<"Error: ", last.outcome.error>>
            ELSE <<UnknownOperationText(d)>> \o last.req.name)

C27_Witness ==
  /\ UnknownOperationOf("products")
  /\ _client # NoClient
  /\ last.response =
       [content |-> <<[type |-> "text",
                       text |-> <<"Unknown product tool: ", "salesbuildr", "_",
                                  "products", "_", "export">>]>>,
        isError |-> TRUE]

\* The success text of the delete tool of domain d for the arguments b.
DeletedText(d, b) ==
  <<(IF d = "companies" THEN "Company " ELSE "Contact "),
    (IF "id" \in DOMAIN b THEN b.id ELSE "undefined"),
    " deleted successfully.">>

ListContract(d) ==
  {"query", "from", "size"}
  \cup (IF d \in {"contacts", "quotes"} THEN {"companyId"} ELSE {})
  \cup (IF d = "quotes" THEN {"opportunityId"} ELSE {})

\* C29: a list tool passes to upstream list exactly the fields of its
\* contract, each with the caller's value, or undefined when the caller
\* gave none; no other field of the arguments is passed.
C29_ListForwardsContractFields ==
  \A r \in Issued :
    \A d \in DomainSet :
      r.name = <<"salesbuildr", "_", d, "_", "list">> =>
        /\ r.call.resource = d
        /\ r.call.method = "list"
        /\ r.call.id = Undefined
        /\ DOMAIN r.call.data = ListContract(d)
        /\ \A k \in ListContract(d) :
             r.call.data[k] = (IF k \in DOMAIN ToolArgs(r) THEN ToolArgs(r)[k]
                               ELSE Undefined)

C29_Witness ==
  \E r \in InFlight :
    /\ r.name = <<"salesbuildr", "_", "quotes", "_", "list">>
    /\ r.pc = "upstream"
    /\ r.args.bag = [companyId |-> "7", opportunityId |-> "9", sort |-> "asc"]
    /\ r.call.data = [query |-> Undefined, companyId |-> "7", opportunityId |-> "9",
                      from |-> Undefined, size |-> Undefined]

\* What list-tools answers in a state whose currentDomain is cur.
VisibleTools(cur) ==
  IF cur = Null THEN [tools |-> << <<"salesbuildr", "_", "navigate">> >>]
  ELSE IF cur \in DomainSet
       THEN [tools |-> << <<"salesbuildr", "_", "back">> >> \o getDomainTools(cur)]
       ELSE [raised |-> NotIterableError]

\* C30: the answer to a list-tools query is a function of currentDomain
\* alone, whatever the credential, the client memo, the requests in flight
\* and the calls answered before are; and a list-tools query changes no
\* part of the state.
C30_FunctionOfCurrentDomain ==
  last.req.kind = "list" =>
    /\ last.response = VisibleTools(last.before)
    /\ last.before = state.currentDomain

C30_NoSideEffect ==
  AnswersList =>
    UNCHANGED <<state, _client, apiKeyEnv, authMode, built, inflight, called>>

C30_ListToolsIsPure == [](C30_FunctionOfCurrentDomain) /\ [][C30_NoSideEffect]_vars

C30_Witness ==
  /\ last.req.kind = "list"
  /\ last.before = "quotes"
  /\ last.response = [tools |-> <<backTool>> \o quoteTools]
  /\ _client # NoClient
  /\ \E r \in InFlight : r.pc = "upstream"

\* The names a caller may send: the reserved names, every registered tool,
\* unregistered operations inside a namespace and names outside all of them.
C31_Names ==
  {navigateTool, backTool} \cup DomainTools \cup UnknownOperations \cup UnknownNames
  \cup {inp.name : inp \in StdioCalls}

\* The branches of the router whose prefix test the name passes.
C31_Matching(name) ==
  {i \in 1 .. Len(RouteBranches) : StartsWith(name, RouteBranches[i].prefix)}

\* The handler the chain selects when its branches are tested in the order
\* given (a permutation of their positions).
C31_InOrder(order, name) ==
  FirstMatch([i \in 1 .. Len(RouteBranches) |-> RouteBranches[order[i]]], name)

C31_Unambiguous(name) ==
  /\ Cardinality(C31_Matching(name)) <= 1
  /\ name \in {navigateTool, backTool} => C31_Matching(name) = {}
  /\ \A order \in Permutations(1 .. Len(RouteBranches)) :
       C31_InOrder(order, name) = Route(name)

C31_AllNamesUnambiguous == \A name \in C31_Names : C31_Unambiguous(name)

\* C31: every tool name passes the prefix test of at most one branch of the
\* router and a reserved name passes none, so the handler selected is the
\* same in whatever order the branches (and the reserved names) are tested;
\* and every call that has reached a handler is in the one its only
\* matching branch names, a reserved name in none.
C31_PrefixDispatchIsUnambiguous ==
  /\ C31_AllNamesUnambiguous
  /\ \A r \in InFlight \cup {last.req} :
       (r.kind = "call" /\ r.pc \in {"importing", "upstream", "done"}) =>
         /\ r.name \in C31_Names
         /\ r.handler =
              (IF C31_Matching(r.name) = {} THEN "none"
               ELSE RouteBranches[CHOOSE i \in C31_Matching(r.name) : TRUE].handler)

C31_Witness ==
  /\ last.req.kind = "call"
  /\ last.req.pc = "done"
  /\ last.req.name = <<"salesbuildr", "_", "quotes", "_", "delete">>
  /\ C31_Matching(last.req.name) = {5}
  /\ last.req.handler = "handleQuoteTool"
  /\ last.before = "companies"

\* The first piece of the text of the envelope e.
C32_Opening(e) == IF Len(e.content[1].text) = 0 THEN "" ELSE e.content[1].text[1]

\* The openings of the texts that say a tool is unknown: the router's and
\* the five handlers'.
C32_UnknownOpenings == {"Unknown tool: "} \cup {UnknownOperationText(d) : d \in DomainSet}

\* For every domain of the navigate enum the tool table is defined and the
\* router has a branch that tests its prefix and delegates to its handler;
\* every advertised tool is routed to that handler and is one of the cases
\* of its switch (the handler issues the upstream call of the tool's own
\* resource instead of returning from its default case).
C32_RegistryMatchesDispatch ==
  \A d \in DomainSet :
    /\ getDomainTools(d) # NoTools
    /\ \E i \in 1 .. Len(RouteBranches) :
         RouteBranches[i] = [prefix |-> Prefix(d), handler |-> HandlerOf(d)]
    /\ \A t \in Range(getDomainTools(d)) :
         /\ Route(t) = HandlerOf(d)
         /\ LET body == HandlerBody(Route(t), t, NoFields, NewClient("KA", 1))
            IN  /\ body.call # NoCall
                /\ body.call.resource = d
                /\ body.call.method = t[5]

\* C32: the registry and the dispatch agree (above), and a call of an
\* advertised tool is never answered with an "Unknown tool" or "Unknown
\* <entity> tool" envelope: it is in the handler of its domain and, once
\* the handler holds the client, one upstream call is issued for it.
C32_AdvertisedToolIsKnown ==
  /\ C32_RegistryMatchesDispatch
  /\ \A r \in InFlight \cup {last.req} :
       (r.kind = "call" /\ r.name \in DomainTools /\ r.pc \in {"importing", "upstream", "done"})
       => /\ r.handler = HandlerOf(r.name[3])
          /\ r.pc = "upstream" => r.call.resource = r.name[3] /\ r.call.method = r.name[5]
  /\ (last.req.kind = "call" /\ last.req.pc = "done" /\ last.req.name \in DomainTools)
     => /\ C32_Opening(last.response) \notin C32_UnknownOpenings
        /\ ~NoClientObtained => last.req.issued = 1

C32_Witness ==
  /\ last.req.kind = "call"
  /\ last.req.pc = "done"
  /\ last.req.name = <<"salesbuildr", "_", "opportunities", "_", "update">>
  /\ last.req.handler = "handleOpportunityTool"
  /\ last.req.call.resource = "opportunities"
  /\ last.req.call.method = "update"
  /\ ~last.outcome.threw
  /\ "isError" \notin DOMAIN last.response

\* The step memoizes a client: a construction of getClient completes.
C33_Memoizes == _client' # _client /\ _client' # NoClient

\* The step starts the handler of the queued request r, whose getClient
\* returns the memoized handle at once.
C33_TakesMemo(r) ==
  /\ r \in InFlight
  /\ r.pc = "queued"
  /\ _client # NoClient
  /\ \E q \in BagToSet(inflight') :
       /\ q.pc = "upstream"
       /\ [q EXCEPT !.pc = "queued", !.handler = "none", !.call = NoCall,
                    !.reply = <<>>, !.issued = 0] = r

\* C33: in gateway mode a construction that completes after the resetClient
\* of a request with another key does not repopulate the memo: the client a
\* step memoizes is built from the key configured at that step, and a
\* getClient that starts after the reset returns no handle built from a key
\* read before it.
C33_ResetIsNotUndone ==
  [][authMode = "gateway" =>
       /\ C33_Memoizes => _client'.apiKey = apiKeyEnv
       /\ \A r \in InFlight :
            C33_TakesMemo(r) => _client.apiKey = apiKeyEnv /\ _client.apiKey = r.header]_vars

\* The step answers a call whose getClient failed.
C34_GetClientFails ==
  /\ last' # last
  /\ last'.req.kind = "call"
  /\ last'.outcome.threw
  /\ last'.outcome.error \in {MissingKeyError, NotInstalledError}

\* A failed getClient leaves the memo and the construction count as they
\* were (empty, when the key was missing), and the next getClient finds
\* what this one found: with a key configured it imports again or returns
\* a handle another call memoized, it never fails on account of this one.
C34_FailureCachesNothing ==
  C34_GetClientFails =>
    /\ _client' = _client
    /\ built' = built
    /\ last'.outcome.error = MissingKeyError => _client = NoClient
    /\ getClientStart(_client', apiKeyEnv') = getClientStart(_client, apiKeyEnv)
    /\ \A k \in {"KA", "KB"} :
         getClientStart(_client', k) =
           (IF _client = NoClient
            THEN [kind |-> "import", client |-> NoClient, creds |-> k]
            ELSE [kind |-> "have", client |-> _client, creds |-> Undefined])

\* While the configuration is broken every domain call fails with the
\* error of that breakage: the missing-key message while no key is set, the
\* not-installed message when the import fails.
C34_BrokenFailsAgain ==
  /\ (last.req.kind = "call" /\ last.req.pc = "done" /\ apiKeyEnv \in {Undefined, ""}
      /\ \E d \in DomainSet : StartsWith(last.req.name, Prefix(d)))
     => /\ last.outcome.threw
        /\ last.outcome.error = MissingKeyError
        /\ _client = NoClient
  /\ (last.req.kind = "call" /\ last.outcome.threw /\ last.outcome.error = MissingKeyError)
     => apiKeyEnv \in {Undefined, ""}
  /\ \A r \in InFlight : r.pc = "importing" => r.creds \notin {Undefined, ""}

C34_ImportFailureIsReported ==
  \A r \in InFlight :
    (r.pc = "importing" /\ last' # last /\ last'.req = [r EXCEPT !.pc = "done"]) =>
      /\ last'.outcome.threw
      /\ last'.outcome.error = NotInstalledError
      /\ last'.req.issued = 0

\* C34: a getClient that fails, for want of an API key or because the
\* client package cannot be loaded, memoizes nothing and is not remembered:
\* a later getClient starts afresh, and a call made while the breakage
\* lasts fails with the same error again.
C34_FailedGetClientCachesNothing ==
  /\ [](C34_BrokenFailsAgain)
  /\ [][C34_FailureCachesNothing /\ C34_ImportFailureIsReported]_vars

C34_Witness ==
  /\ apiKeyEnv = "KA"
  /\ last.req.kind = "call"
  /\ last.req.name = <<"salesbuildr", "_", "products", "_", "list">>
  /\ last.outcome.error = NotInstalledError
  /\ _client = NewClient("KA", 1)
  /\ \E r \in InFlight : r.pc = "upstream" /\ r.call.apiKey = "KA" /\ r.call.serial = 1

\* C35: a salesbuildr_navigate call without an arguments mapping fails in
\* the destructuring, before the assignment: it is answered with the error
\* envelope of the catch clause, nothing is issued upstream and
\* currentDomain is what it was before the call.
C35_Step ==
  (Answers(navigateTool) /\ ~last'.req.args.present) =>
    /\ state' = state
    /\ last'.before = state.currentDomain
    /\ inflight' = inflight
    /\ ListTools(state'.currentDomain) = ListTools(state.currentDomain)

C35_Answer ==
  (last.req.kind = "call" /\ last.req.name = navigateTool /\ ~last.req.args.present) =>
    /\ last.outcome.threw
    /\ last.response =
         [content |->
            <<[type |-> "text",
               text |-> <<"Error: ",
                          "Cannot destructure property 'domain' of 'args' as it is undefined.">>]>>,
          isError |-> TRUE]
    /\ state.currentDomain = last.before
    /\ last.req.issued = 0

C35_NavigateWithoutArguments == [](C35_Answer) /\ [][C35_Step]_vars

C35_Witness ==
  /\ last.req.kind = "call"
  /\ last.req.name = navigateTool
  /\ ~last.req.args.present
  /\ last.before = "contacts"
  /\ state.currentDomain = "contacts"
  /\ IsErrorEnvelope(last.response)

\* The step answers an HTTP request at the listener with the given status.
C36_ListenerAnswers(status) == last' # last /\ last'.response = [status |-> status]

\* The header carries no key: it is absent or empty.
C36_NoKey(header) == header \in {Undefined, ""}

\* In gateway mode a request without a key is never in flight and never
\* reaches a handler; the one answered last at the listener was turned away.
C36_NeverHandled ==
  authMode = "gateway" =>
    /\ \A r \in InFlight : ~C36_NoKey(r.header)
    /\ (last.req.kind \in {"list", "call"} /\ C36_NoKey(last.req.header))
       => /\ last.req.pc = "rejected"
          /\ last.response = [status |-> 401]
          /\ last.req.handler = "none"
          /\ last.req.issued = 0
          /\ last.outcome = NoOutcome
    /\ last.req.pc = "rejected" => C36_NoKey(last.req.header)

\* The step that answers 401 changes nothing but the record of the answer.
C36_NoEffect ==
  (C36_ListenerAnswers(401) \/ (last' # last /\ last'.req.pc = "rejected")) =>
    /\ authMode = "gateway"
    /\ C36_NoKey(last'.req.header)
    /\ last'.req.pc = "rejected"
    /\ UNCHANGED <<state, _client, apiKeyEnv, authMode, built, inflight, called>>

\* C36: in gateway mode an /mcp request whose x-salesbuildr-api-key header
\* is absent or empty is answered 401 and goes no further: it is not handed
\* to the router, the memoized client is not reset, and the configured key
\* and the Session State stay as they were.
C36_MissingHeaderIsRejected == [](C36_NeverHandled) /\ [][C36_NoEffect]_vars

C36_Witness ==
  /\ authMode = "gateway"
  /\ last.req.pc = "rejected"
  /\ last.req.kind = "call"
  /\ last.req.header = ""
  /\ last.response = [status |-> 401]
  /\ _client = NewClient("KB", 1)
  /\ apiKeyEnv = "KB"
  /\ state.currentDomain = "companies"
  /\ \E r \in InFlight : r.pc = "upstream"

\* The step takes the /mcp request r in: it waits for the transport.
C37_Arrives(r) == r.pc = "queued" /\ inflight' = inflight (+) SetToBag({r})

\* In env mode the key of the environment is the credential of every
\* client and every upstream call, whatever headers the requests carry.
C37_EnvKeyOnly ==
  authMode = "env" =>
    /\ apiKeyEnv = "KA"
    /\ _client # NoClient => _client.apiKey = "KA"
    /\ \A r \in InFlight \cup {last.req} :
         /\ r.pc = "importing" => r.creds = "KA"
         /\ r.call # NoCall => r.call.apiKey = "KA"

C37_HeaderStep ==
  /\ authMode = "env" =>
       /\ apiKeyEnv' = apiKeyEnv
       /\ _client # NoClient => _client' # NoClient
       /\ built' >= built
       /\ \A r \in BagToSet(inflight') :
            C37_Arrives(r) => UNCHANGED <<state, _client, apiKeyEnv, built, last>>
       /\ last' # last => last'.response # [status |-> 401]
  /\ authMode = "gateway" =>
       \A r \in BagToSet(inflight') :
         C37_Arrives(r) => apiKeyEnv' = r.header /\ _client' = NoClient
  /\ C36_ListenerAnswers(200) =>
       /\ last'.req.kind = "/health"
       /\ UNCHANGED <<state, _client, apiKeyEnv, authMode, built, inflight, called>>

\* C37: the key header is consumed in gateway mode only.  In env mode an
\* /mcp request that carries one is taken in without a change of the
\* configured key and without a reset of the memoized client, and upstream
\* calls go on with the key of the environment; a health-check request
\* changes neither, in both modes.
C37_HeaderOnlyInGatewayMode == [](C37_EnvKeyOnly) /\ [][C37_HeaderStep]_vars

C37_Witness ==
  /\ authMode = "env"
  /\ apiKeyEnv = "KA"
  /\ _client = NewClient("KA", 1)
  /\ \E r \in InFlight : r.pc = "queued" /\ r.header = "KB"
  /\ \E r \in InFlight : r.pc = "upstream" /\ r.header = "KB" /\ r.call.apiKey = "KA"

====
